---- MODULE Spec2Model ----
(***************************************************************************)
(* The HTTP client wrapper (api.js: the axios instance `api`, its request  *)
(* interceptor and the fetch-based download helpers) and the auth state    *)
(* holder (AuthContext.js: AuthProvider with checkAuth, login, register,   *)
(* logout, updateUser) as one state machine.                               *)
(*                                                                         *)
(* Every `await` of the source is a suspend point: the code before it and  *)
(* the code after it are separate atomic steps, and any other event        *)
(* handler may run in between.  The backend is external: it answers each   *)
(* request with a response or an error, chosen nondeterministically.       *)
(*                                                                         *)
(* A nullable JavaScript value is <<>> (null / undefined) or <<v>>.        *)
(***************************************************************************)
EXTENDS Naturals, Sequences, FiniteSets, TLC

\* Number of login / register / logout calls that may be suspended at once.
MaxCalls == 2

Null == <<>>

Some(v) == <<v>>

\* Opaque bearer tokens the backend may issue or storage may hold.
Tokens == {"t1", "t2"}

UserIds == {"u1", "u2"}

\* JSON values of the field is_admin: the booleans and a truthy non-boolean.
IsAdminValues == {"true", "false", "1"}

Users == [id : UserIds, is_admin : IsAdminValues]

\* Errors of the transport layer (no differentiation of cause in the code).
Errors == {"Network Error", "401"}

\* res.data of /api/auth/login and /api/auth/register
AuthResponses == [access_token : Tokens, user : Users]

VARIABLES
    token,          \* localStorage item 'token': Null or Some(t)
    currentUser,    \* useState(null)
    isAdmin,        \* useState(false)
    loading,        \* useState(true)
    checkAuthPc,    \* position of the startup effect: "start", "awaiting", "done"
    profileFetches, \* number of profileAPI.get() calls made by checkAuth
    calls,          \* suspended calls of login / register / logout
    outbound,       \* the request the last step put on the wire, or Null
    event           \* what the last step did and what its caller observed

vars == <<token, currentUser, isAdmin, loading, checkAuthPc, profileFetches,
          calls, outbound, event>>

Slots == 1..MaxCalls

----------------------------------------------------------------------------
(* HTTP client wrapper                                                     *)

\* `Bearer ${token}`
Bearer(t) == "Bearer " \o t

\* config.headers.Authorization = value
SetHeader(headers, name, value) ==
    {h \in headers : h[1] /= name} \cup {<<name, value>>}

\* A plausible slip: the header is set without testing the token.
RequestInterceptor_Unconditional(headers, tok) ==
    SetHeader(headers, "Authorization",
              Bearer(IF tok = Null THEN "null" ELSE tok[1]))

\* api.interceptors.request.use((config) => { ... return config; })
RequestInterceptor(headers, tok) ==
    IF tok /= Null
    THEN SetHeader(headers, "Authorization", Bearer(tok[1]))
    ELSE headers

\* A request made through the axios instance: the interceptor reads the
\* stored token when the request is issued.
ApiRequest(method, url, headers) ==
    Some([via |-> "api", method |-> method, url |-> url, config |-> headers,
          headers |-> RequestInterceptor(headers, token)])

\* fetch(url, { method: 'GET', credentials: 'include' }): no interceptor.
FetchRequest(url) ==
    Some([via |-> "fetch", method |-> "GET", url |-> url, config |-> {},
          headers |-> {}])

Multipart == {<<"Content-Type", "multipart/form-data">>}

\* The other endpoints of api.js, all plain pass-through calls of `api`.
Endpoints ==
    { <<"GET", "/api/papers", {}>>,
      <<"POST", "/api/papers/", Multipart>>,
      <<"PUT", "/api/auth/profile", {}>>,
      <<"POST", "/api/auth/profile/photo", Multipart>>,
      <<"GET", "/api/bookmarks", {}>> }

DownloadKinds == {"papers", "notes", "syllabus"}

Ev(op, phase, backend, resp, thrown, ret, err) ==
    [op |-> op, phase |-> phase, backend |-> backend, resp |-> resp,
     thrown |-> thrown, ret |-> ret, err |-> err]

\* papersAPI.getAll(), profileAPI.update(), ...: the promise goes to the caller.
ApiCall(ep) ==
    /\ outbound' = ApiRequest(ep[1], ep[2], ep[3])
    /\ event' = Ev("api", "called", "none", Null, Null, Null, Null)
    /\ UNCHANGED <<token, currentUser, isAdmin, loading, checkAuthPc,
                   profileFetches, calls>>

\* papersAPI.download / notesAPI.download / syllabusAPI.download.
\* outcome: "ok" (file saved), "not_ok" (!response.ok), "network" (fetch rejects)
Download(kind, outcome) ==
    /\ outbound' = FetchRequest("/api/" \o kind \o "/download")
    /\ event' = CASE outcome = "ok" ->
                       Ev("download", "fulfilled", "ok", Null, Null, Null, Null)
                  [] outcome = "not_ok" ->
                       Ev("download", "rejected", "failed", Null, Null, Null,
                          Some("Download failed"))
                  [] OTHER ->
                       Ev("download", "rejected", "failed", Null,
                          Some("Network Error"), Null, Some("Network Error"))
    /\ UNCHANGED <<token, currentUser, isAdmin, loading, checkAuthPc,
                   profileFetches, calls>>

----------------------------------------------------------------------------
(* Auth state holder                                                       *)

\* user.is_admin === true
DeriveIsAdmin_Truthy(user) == user.is_admin \in {"true", "1"}

DeriveIsAdmin(user) == user.is_admin = "true"

Init ==
    /\ token \in {Null} \cup {Some(t) : t \in Tokens}
    /\ currentUser = Null
    /\ isAdmin = FALSE
    /\ loading = TRUE
    /\ checkAuthPc = "start"
    /\ profileFetches = 0
    /\ calls = [s \in Slots |-> "idle"]
    /\ outbound = Null
    /\ event = Ev("init", "none", "none", Null, Null, Null, Null)

\* checkAuth up to its await (or to its early return)
CheckAuthStart ==
    /\ checkAuthPc = "start"
    /\ IF token = Null
       THEN /\ currentUser' = Null
            /\ isAdmin' = FALSE
            /\ loading' = FALSE
            /\ checkAuthPc' = "done"
            /\ outbound' = Null
            /\ event' = Ev("checkAuth", "fulfilled", "none", Null, Null, Null, Null)
            /\ UNCHANGED profileFetches
       ELSE /\ outbound' = ApiRequest("GET", "/api/auth/profile", {})
            /\ profileFetches' = profileFetches + 1
            /\ checkAuthPc' = "awaiting"
            /\ event' = Ev("checkAuth", "called", "none", Null, Null, Null, Null)
            /\ UNCHANGED <<currentUser, isAdmin, loading>>
    /\ UNCHANGED <<token, calls>>

\* A plausible slip: setLoading(false) at the end of the try block only.
CheckAuthReject_NoFinally(e) ==
    /\ checkAuthPc = "awaiting"
    /\ currentUser' = Null
    /\ isAdmin' = FALSE
    /\ checkAuthPc' = "done"
    /\ outbound' = Null
    /\ event' = Ev("checkAuth", "fulfilled", "failed", Null, Some(e), Null, Null)
    /\ UNCHANGED <<token, loading, profileFetches, calls>>

\* profileAPI.get() resolved: try block, then finally
CheckAuthResolve(user) ==
    /\ checkAuthPc = "awaiting"
    /\ currentUser' = Some(user)
    /\ isAdmin' = DeriveIsAdmin(user)
    /\ loading' = FALSE
    /\ checkAuthPc' = "done"
    /\ outbound' = Null
    /\ event' = Ev("checkAuth", "fulfilled", "ok",
                   Some([access_token |-> token[1], user |-> user]),
                   Null, Null, Null)
    /\ UNCHANGED <<token, profileFetches, calls>>

\* profileAPI.get() rejected: catch block, then finally
CheckAuthReject(e) ==
    /\ checkAuthPc = "awaiting"
    /\ currentUser' = Null
    /\ isAdmin' = FALSE
    /\ loading' = FALSE
    /\ checkAuthPc' = "done"
    /\ outbound' = Null
    /\ event' = Ev("checkAuth", "fulfilled", "failed", Null, Some(e), Null, Null)
    /\ UNCHANGED <<token, profileFetches, calls>>

\* The provider renders its children, the only callers of login, register,
\* logout and updateUser, once loading is false: {!loading && children}
ChildrenRendered == ~loading

\* login up to its await
LoginCall(s) ==
    /\ ChildrenRendered
    /\ calls[s] = "idle"
    /\ calls' = [calls EXCEPT ![s] = "login"]
    /\ outbound' = ApiRequest("POST", "/api/auth/login", {})
    /\ event' = Ev("login", "called", "none", Null, Null, Null, Null)
    /\ UNCHANGED <<token, currentUser, isAdmin, loading, checkAuthPc,
                   profileFetches>>

\* authAPI.login resolved: the rest of login
LoginResolve(s, res) ==
    /\ calls[s] = "login"
    /\ calls' = [calls EXCEPT ![s] = "idle"]
    /\ token' = Some(res.access_token)
    /\ currentUser' = Some(res.user)
    /\ isAdmin' = DeriveIsAdmin(res.user)
    /\ outbound' = Null
    /\ event' = Ev("login", "fulfilled", "ok", Some(res), Null,
                   Some(res.user), Null)
    /\ UNCHANGED <<loading, checkAuthPc, profileFetches>>

\* A plausible slip: a failed login treated as the end of the session.
LoginReject_ClearsSession(s, e) ==
    /\ calls[s] = "login"
    /\ calls' = [calls EXCEPT ![s] = "idle"]
    /\ token' = Null
    /\ currentUser' = Null
    /\ isAdmin' = FALSE
    /\ outbound' = Null
    /\ event' = Ev("login", "rejected", "failed", Null, Some(e), Null, Some(e))
    /\ UNCHANGED <<loading, checkAuthPc, profileFetches>>

\* authAPI.login rejected: login has no catch, the error reaches the caller
LoginReject(s, e) ==
    /\ calls[s] = "login"
    /\ calls' = [calls EXCEPT ![s] = "idle"]
    /\ outbound' = Null
    /\ event' = Ev("login", "rejected", "failed", Null, Some(e), Null, Some(e))
    /\ UNCHANGED <<token, currentUser, isAdmin, loading, checkAuthPc,
                   profileFetches>>

\* register up to its await
RegisterCall(s) ==
    /\ ChildrenRendered
    /\ calls[s] = "idle"
    /\ calls' = [calls EXCEPT ![s] = "register"]
    /\ outbound' = ApiRequest("POST", "/api/auth/register", {})
    /\ event' = Ev("register", "called", "none", Null, Null, Null, Null)
    /\ UNCHANGED <<token, currentUser, isAdmin, loading, checkAuthPc,
                   profileFetches>>

\* authAPI.register resolved: the rest of register (only `user` is read)
RegisterResolve(s, res) ==
    /\ calls[s] = "register"
    /\ calls' = [calls EXCEPT ![s] = "idle"]
    /\ currentUser' = Some(res.user)
    /\ isAdmin' = DeriveIsAdmin(res.user)
    /\ outbound' = Null
    /\ event' = Ev("register", "fulfilled", "ok", Some(res), Null,
                   Some(res.user), Null)
    /\ UNCHANGED <<token, loading, checkAuthPc, profileFetches>>

\* authAPI.register rejected: no catch
RegisterReject(s, e) ==
    /\ calls[s] = "register"
    /\ calls' = [calls EXCEPT ![s] = "idle"]
    /\ outbound' = Null
    /\ event' = Ev("register", "rejected", "failed", Null, Some(e), Null, Some(e))
    /\ UNCHANGED <<token, currentUser, isAdmin, loading, checkAuthPc,
                   profileFetches>>

\* logout up to its await
LogoutCall(s) ==
    /\ ChildrenRendered
    /\ calls[s] = "idle"
    /\ calls' = [calls EXCEPT ![s] = "logout"]
    /\ outbound' = ApiRequest("POST", "/api/auth/logout", {})
    /\ event' = Ev("logout", "called", "none", Null, Null, Null, Null)
    /\ UNCHANGED <<token, currentUser, isAdmin, loading, checkAuthPc,
                   profileFetches>>

\* authAPI.logout resolved: the code after the try statement
LogoutResolve(s) ==
    /\ calls[s] = "logout"
    /\ calls' = [calls EXCEPT ![s] = "idle"]
    /\ token' = Null
    /\ currentUser' = Null
    /\ isAdmin' = FALSE
    /\ outbound' = Null
    /\ event' = Ev("logout", "fulfilled", "ok", Null, Null, Null, Null)
    /\ UNCHANGED <<loading, checkAuthPc, profileFetches>>

\* A plausible slip: no try/catch around the backend call.
LogoutReject_NoCatch(s, e) ==
    /\ calls[s] = "logout"
    /\ calls' = [calls EXCEPT ![s] = "idle"]
    /\ outbound' = Null
    /\ event' = Ev("logout", "rejected", "failed", Null, Some(e), Null, Some(e))
    /\ UNCHANGED <<token, currentUser, isAdmin, loading, checkAuthPc,
                   profileFetches>>

\* authAPI.logout rejected: the catch logs the error, then the same code
LogoutReject(s, e) ==
    /\ calls[s] = "logout"
    /\ calls' = [calls EXCEPT ![s] = "idle"]
    /\ token' = Null
    /\ currentUser' = Null
    /\ isAdmin' = FALSE
    /\ outbound' = Null
    /\ event' = Ev("logout", "fulfilled", "failed", Null, Some(e), Null, Null)
    /\ UNCHANGED <<loading, checkAuthPc, profileFetches>>

\* updateUser(updatedUser): setCurrentUser only
UpdateUser(u) ==
    /\ ChildrenRendered
    /\ currentUser' = Some(u)
    /\ outbound' = Null
    /\ event' = Ev("updateUser", "fulfilled", "none", Null, Null, Null, Null)
    /\ UNCHANGED <<token, isAdmin, loading, checkAuthPc, profileFetches, calls>>

Next ==
    \/ CheckAuthStart
    \/ \E u \in Users : CheckAuthResolve(u)
    \/ \E e \in Errors : CheckAuthReject(e)
    \/ \E s \in Slots : LoginCall(s)
    \/ \E s \in Slots, res \in AuthResponses : LoginResolve(s, res)
    \/ \E s \in Slots, e \in Errors : LoginReject(s, e)
    \/ \E s \in Slots : RegisterCall(s)
    \/ \E s \in Slots, res \in AuthResponses : RegisterResolve(s, res)
    \/ \E s \in Slots, e \in Errors : RegisterReject(s, e)
    \/ \E s \in Slots : LogoutCall(s)
    \/ \E s \in Slots : LogoutResolve(s)
    \/ \E s \in Slots, e \in Errors : LogoutReject(s, e)
    \/ \E u \in Users : UpdateUser(u)
    \/ \E ep \in Endpoints : ApiCall(ep)
    \/ \E k \in DownloadKinds, o \in {"ok", "not_ok", "network"} : Download(k, o)

Spec == Init /\ [][Next]_vars

\* The startup effect runs after the first render, and the backend answers
\* the profile fetch (the proviso of the loading claim).
FairSpec ==
    /\ Init
    /\ [][Next]_vars
    /\ WF_vars(CheckAuthStart)
    /\ WF_vars(\E u \in Users : CheckAuthResolve(u))
    /\ WF_vars(\E e \in Errors : CheckAuthReject(e))

----------------------------------------------------------------------------
(* Properties                                                              *)

HasHeader(req, name, value) == <<name, value>> \in req.headers

HeaderNames(req) == {h[1] : h \in req.headers}

\* C1: whenever a token is stored at the moment a request is issued, the
\* request carries Authorization: Bearer <that token>; this is stated of
\* every outbound request, the fetch-based downloads included.
C1_BearerOnEveryRequest ==
    (outbound /= Null /\ token /= Null)
        => HasHeader(outbound[1], "Authorization", Bearer(token[1]))

\* C2: when no token is stored at the moment a request is issued, the
\* request carries no Authorization header and its configuration is the one
\* the caller gave.
C2_NoTokenNoHeader ==
    (outbound /= Null /\ token = Null)
        => /\ "Authorization" \notin HeaderNames(outbound[1])
           /\ outbound[1].headers = outbound[1].config

\* C2 witness: a multipart request through the axios instance after logout
\* has removed the token.
C2_Witness ==
    /\ outbound /= Null
    /\ token = Null
    /\ outbound[1].via = "api"
    /\ outbound[1].headers = Multipart
    /\ profileFetches = 1

\* C3: after login completes successfully, currentUser is the user of the
\* response, isAdmin is (user.is_admin === true) and the stored token is the
\* access_token of the response, whatever the state before.
C3_LoginPostcondition ==
    (event.op = "login" /\ event.phase = "fulfilled")
        => /\ currentUser = Some(event.resp[1].user)
           /\ isAdmin = (event.resp[1].user.is_admin = "true")
           /\ token = Some(event.resp[1].access_token)
           /\ event.ret = Some(event.resp[1].user)

\* C3 witness: a login that completed for a user whose is_admin is truthy
\* but not true, while another call is still suspended.
C3_Witness ==
    /\ event.op = "login"
    /\ event.phase = "fulfilled"
    /\ event.resp[1].user.is_admin = "1"
    /\ \E s \in Slots : calls[s] /= "idle"

\* C4: after logout completes, currentUser is null, isAdmin is false and no
\* token is stored, whether the backend call succeeded or failed, and logout
\* never rejects.
C4_LogoutPostcondition ==
    (event.op = "logout" /\ event.phase /= "called")
        => /\ event.phase = "fulfilled"
           /\ event.err = Null
           /\ currentUser = Null
           /\ isAdmin = FALSE
           /\ token = Null

\* C4 witness: a logout that completed although its backend call failed.
C4_Witness ==
    /\ event.op = "logout"
    /\ event.phase = "fulfilled"
    /\ event.backend = "failed"

\* C5: in every reachable state isAdmin equals (currentUser is non-null and
\* currentUser.is_admin === true).
C5_IsAdminDerived ==
    isAdmin = (currentUser /= Null /\ currentUser[1].is_admin = "true")

\* C6: register creates a session token as login does: after a successful
\* register a token is persisted in client-side storage.
C6_RegisterPersistsToken ==
    (event.op = "register" /\ event.phase = "fulfilled")
        => (token /= Null /\ currentUser /= Null)

\* C7: the stored token is deleted on auth failure: after the startup check
\* whose profile fetch failed no token is stored, so that once loading is
\* false an anonymous state never has a token stored.
C7_TokenDeletedOnAuthFailure ==
    /\ (event.op = "checkAuth" /\ event.backend = "failed") => token = Null
    /\ (~loading /\ currentUser = Null) => token = Null

\* What the startup check leaves behind at the step that ends loading.
LeavesLoadingAs ==
    (event.op = "checkAuth" /\ event.phase = "fulfilled")
        => /\ ~loading
           /\ (currentUser /= Null) = (token /= Null /\ event.backend = "ok")
           /\ event.backend = "ok"
                => /\ currentUser = Some(event.resp[1].user)
                   /\ isAdmin = (event.resp[1].user.is_admin = "true")
           /\ event.backend /= "ok" => (currentUser = Null /\ isAdmin = FALSE)
           /\ (event.backend = "none") = (token = Null)
           /\ profileFetches = (IF token = Null THEN 0 ELSE 1)

\* C8: the holder starts in loading, eventually leaves it (the profile fetch
\* being answered), leaves it only at the end of the startup check and never
\* returns to it; it leaves as authenticated exactly when a token was stored
\* and the profile fetch succeeded, as anonymous otherwise, and the profile
\* is fetched at most once.
C8_LoadingLifecycle ==
    /\ loading = TRUE
    /\ <>(~loading)
    /\ [][~loading => ~loading']_vars
    /\ [][(loading /\ ~loading')
            => (event'.op = "checkAuth" /\ event'.phase = "fulfilled")]_vars
    /\ [](loading => (currentUser = Null /\ isAdmin = FALSE))
    /\ []LeavesLoadingAs
    /\ [](profileFetches <= 1)

\* C8 witness: loading was left as authenticated after the one profile fetch.
C8_Witness ==
    /\ ~loading
    /\ event.op = "checkAuth"
    /\ event.backend = "ok"
    /\ currentUser /= Null
    /\ profileFetches = 1

\* C9: while a call is suspended awaiting its backend reply, the completion
\* of no other call writes the stored token, currentUser or isAdmin.
C9_NoConcurrentWriter ==
    [][\A s \in Slots :
          (calls[s] /= "idle" /\ calls'[s] = calls[s])
              => ~(/\ \E r \in Slots \ {s} :
                          calls[r] /= "idle" /\ calls'[r] = "idle"
                   /\ <<token, currentUser, isAdmin>>'
                          /= <<token, currentUser, isAdmin>>)]_vars

\* C10: when the backend call of login or register fails, the caller gets
\* the transport error itself, and the stored token, currentUser and isAdmin
\* are as they were before.
C10_FailedCallLeavesState ==
    [][(event'.op \in {"login", "register"} /\ event'.phase /= "called"
          /\ event'.backend = "failed")
        => /\ event'.phase = "rejected"
           /\ event'.err = event'.thrown
           /\ event'.thrown /= Null
           /\ token' = token
           /\ currentUser' = currentUser
           /\ isAdmin' = isAdmin]_vars

\* C10 witness: a failed login of an authenticated user that is still
\* authenticated.
C10_Witness ==
    /\ event.op = "login"
    /\ event.phase = "rejected"
    /\ currentUser /= Null
    /\ token /= Null

====
